---- MODULE Spec2Model ----
(***************************************************************************)
(* The DashDeploy action of the serverless framework                       *)
(* (lib/actions/DashDeploy.js): the promise chain of dashDeploy, the       *)
(* orphan detection of _initNotExistEndpoints, the choice list and the     *)
(* post-selection mapping of _prompt, and the four dispatch stages of      *)
(* _deploy.                                                                *)
(*                                                                         *)
(* JavaScript strings that the code concatenates or splits are modelled    *)
(* as sequences of characters, so that "<path>~<method>" is a real         *)
(* concatenation.  Every callback of the promise chain is one action.      *)
(***************************************************************************)
EXTENDS Integers, Sequences, FiniteSets, TLC

\* ------------------------------------------------------------------------
\* Bounds of the reconciliation inputs (specification SpecRecon)
\* ------------------------------------------------------------------------
MaxFuncs     == 2   \* local functions in the project
MaxEndpoints == 1   \* endpoints of one local function
MaxEvents    == 1   \* events of one local function
MaxItems     == 2   \* resources of the deployed REST API
MaxMethods   == 2   \* method keys of one deployed resource

\* ------------------------------------------------------------------------
\* Strings
\* ------------------------------------------------------------------------
users  == <<"u", "s", "e", "r", "s">>
posts  == <<"p", "o", "s", "t", "s">>
show   == <<"s", "h", "o", "w">>
sched  == <<"s", "c", "h", "e", "d">>
GET    == <<"G", "E", "T">>
get    == <<"g", "e", "t">>
DELETE == <<"D", "E", "L", "E", "T", "E">>

Undefined == "undefined"
Null      == "null"

Range(s) == {s[i] : i \in DOMAIN s}

SeqsUpTo(S, n) == UNION {[1..k -> S] : k \in 0..n}

\* sequences without repetition
InjSeqsUpTo(S, n) == {s \in SeqsUpTo(S, n) : \A i, j \in DOMAIN s : s[i] = s[j] => i = j}

\* a + "~" + b, and the template `${a}~${b}`
Key(a, b) == a \o <<"~">> \o b

\* String.prototype.split for a one-character separator
RECURSIVE SplitFrom(_, _, _, _)
SplitFrom(s, c, i, cur) ==
  IF i > Len(s) THEN <<cur>>
  ELSE IF s[i] = c THEN <<cur>> \o SplitFrom(s, c, i + 1, <<>>)
  ELSE SplitFrom(s, c, i + 1, Append(cur, s[i]))

Split(s, c) == SplitFrom(s, c, 1, <<>>)

\* label[k] of a split result: undefined when the piece is missing
Piece(parts, k) == IF k <= Len(parts) THEN parts[k] ELSE <<Undefined>>

\* ------------------------------------------------------------------------
\* Input alphabets
\* ------------------------------------------------------------------------
FuncNames    == {users, posts}
EndpointDefs == {[path |-> users, method |-> GET], [path |-> show, method |-> get]}
EventDefs    == {[name |-> sched, type |-> "schedule"]}
RemoteMethods == {GET, DELETE}
Stages       == {"dev"}
Regions      == {"us-east-1"}
ProjectName  == "myProject"
ApiIds       == {"api1"}
SErrors      == {"Throttled", "AccessDenied"}
DeployResults == {"created", "updated"}
Runs         == {1, 2}

\* FunctionDef: name, ordered endpoints (no endpoint listed twice), ordered
\* events (names unique within the function)
FunctionDefs(name) ==
  {[name |-> name, endpoints |-> e, events |-> v] :
     e \in InjSeqsUpTo(EndpointDefs, MaxEndpoints),
     v \in InjSeqsUpTo(EventDefs, MaxEvents)}

\* local functions of the project: names unique within the project
Projects ==
  {p \in SeqsUpTo(UNION {FunctionDefs(n) : n \in FuncNames}, MaxFuncs) :
     \A i, j \in DOMAIN p : p[i].name = p[j].name => i = j}

\* resourceMethods of a deployed resource: absent when the resource has no
\* method, or else its keys in the order the remote mapping provides them
MethodMaps ==
  {[defined |-> FALSE, keys |-> <<>>]} \cup
  {[defined |-> TRUE, keys |-> k] : k \in InjSeqsUpTo(RemoteMethods, MaxMethods) \ {<<>>}}

DeployedResources ==
  {[type |-> "object", pathPart |-> p, resourceMethods |-> m] :
     p \in FuncNames, m \in MethodMaps}

\* the resources of the REST API in listing order: several may share a
\* pathPart
Remotes == InjSeqsUpTo(DeployedResources, MaxItems)

\* ------------------------------------------------------------------------
\* _initNotExistEndpoints: orphan detection
\* ------------------------------------------------------------------------

\* a slip in the declaration: `let deployedResource;` leaves it undefined
DeployedResourceUnset == [type |-> "undefined"]

\* let deployedResource = false: a primitive, whose properties read as
\* undefined
DeployedResourceInit == [type |-> "boolean"]

\* a slip in the callback: it returns true after the assignment, so the
\* iteration goes on and the last matching item stays assigned
SearchDeployedResourceLast(its, i, name) ==
  LET hits == {j \in i..Len(its) : its[j].pathPart = name}
  IN  IF hits = {} THEN DeployedResourceInit
      ELSE its[CHOOSE j \in hits : \A k \in hits : j >= k]

\* deployedResources.items.every(...) from item i on: the callback assigns
\* the item and returns false, which ends the iteration, at the first item
\* whose pathPart equals the function's name; the initial value stays when
\* it returns true for every item
SearchDeployedResource(its, i, name) ==
  LET stops == {j \in i..Len(its) : its[j].pathPart = name}
  IN  IF stops = {} THEN DeployedResourceInit
      ELSE its[CHOOSE j \in stops : \A k \in stops : j <= k]

\* the keys that `for (let method in deployedResource.resourceMethods)`
\* visits; reading a property of undefined or null is a TypeError
ResourceMethodKeys(deployedResource) ==
  IF deployedResource.type = "undefined" THEN [threw |-> TRUE, keys |-> <<>>]
  ELSE IF deployedResource.type = "boolean" THEN [threw |-> FALSE, keys |-> <<>>]
  ELSE IF ~deployedResource.resourceMethods.defined THEN [threw |-> FALSE, keys |-> <<>>]
  ELSE [threw |-> FALSE, keys |-> deployedResource.resourceMethods.keys]

\* a slip in the inner loop: the deployed method compared with the local path
ExistComparesPath(method, localEndpoints) ==
  \E i \in 1..Len(localEndpoints) : method = localEndpoints[i].path

\* the inner loop over localEndpoints: exist = true when some local
\* endpoint has this method
Exist(method, localEndpoints) ==
  \E i \in 1..Len(localEndpoints) : method = localEndpoints[i].method

\* the loop over the deployed method keys, pushing pathPart~method for
\* every key that does not exist locally
RECURSIVE CollectNotExist(_, _, _, _)
CollectNotExist(deployedResource, keys, k, localEndpoints) ==
  IF k > Len(keys) THEN <<>>
  ELSE (IF Exist(keys[k], localEndpoints) THEN <<>>
        ELSE <<Key(deployedResource.pathPart, keys[k])>>)
       \o CollectNotExist(deployedResource, keys, k + 1, localEndpoints)

\* the body of localFunctions.forEach for one function
FuncNotExistEndpoints(func, deployedResources) ==
  IF ~deployedResources.hasItems THEN [threw |-> TRUE, list |-> <<>>]
  ELSE LET deployedResource == SearchDeployedResource(deployedResources.items, 1, func.name)
           rm == ResourceMethodKeys(deployedResource)
       IN  IF rm.threw THEN [threw |-> TRUE, list |-> <<>>]
           ELSE [threw |-> FALSE,
                 list |-> CollectNotExist(deployedResource, rm.keys, 1, func.endpoints)]

\* a slip in the push: a function without orphans pushes nothing
RECURSIVE ForEachFunctionSkipsEmpty(_, _, _, _)
ForEachFunctionSkipsEmpty(localFunctions, i, deployedResources, notExistEndpoints) ==
  IF i > Len(localFunctions) THEN [threw |-> FALSE, notExistEndpoints |-> notExistEndpoints]
  ELSE LET f == FuncNotExistEndpoints(localFunctions[i], deployedResources)
       IN  IF f.threw THEN [threw |-> TRUE, notExistEndpoints |-> notExistEndpoints]
           ELSE ForEachFunctionSkipsEmpty(localFunctions, i + 1, deployedResources,
                  IF f.list = <<>> THEN notExistEndpoints
                  ELSE Append(notExistEndpoints, f.list))

\* localFunctions.forEach: one push onto notExistEndpoints per function, up
\* to the first function whose body throws
RECURSIVE ForEachFunction(_, _, _, _)
ForEachFunction(localFunctions, i, deployedResources, notExistEndpoints) ==
  IF i > Len(localFunctions) THEN [threw |-> FALSE, notExistEndpoints |-> notExistEndpoints]
  ELSE LET f == FuncNotExistEndpoints(localFunctions[i], deployedResources)
       IN  IF f.threw THEN [threw |-> TRUE, notExistEndpoints |-> notExistEndpoints]
           ELSE ForEachFunction(localFunctions, i + 1, deployedResources,
                                Append(notExistEndpoints, f.list))

\* ------------------------------------------------------------------------
\* _prompt: the choice list
\* ------------------------------------------------------------------------
SpacerEntry(func) == [spacer |-> func.name]

FunctionChoice(func) ==
  [key |-> "  ", value |-> func.name,
   label |-> <<"function - ">> \o func.name, type |-> "function"]

EndpointChoice(endpoint) ==
  [key |-> "  ", value |-> Key(endpoint.path, endpoint.method),
   label |-> <<"endpoint - ">> \o endpoint.path \o <<" - ">> \o endpoint.method,
   type |-> "endpoint"]

RemovalChoice(endpoint) ==
  LET label == Split(endpoint, "~")
  IN  [key |-> "  ", value |-> endpoint,
       label |-> <<"x endpoint removal - ">> \o Piece(label, 1) \o <<" - ">> \o Piece(label, 2),
       type |-> "endpoint", removal |-> TRUE]

EventChoice(event) ==
  [key |-> "  ", value |-> event.name,
   label |-> <<"event - ">> \o event.name \o <<" - ", event.type>>,
   type |-> "event"]

\* _.each over a list, pushing one choice per element
MapChoices(Op(_), list) == [k \in 1..Len(list) |-> Op(list[k])]

\* a slip in the index: the orphan list of the next function
NotExistAtNext(notExistEndpoints, i) ==
  IF i + 1 <= Len(notExistEndpoints) THEN notExistEndpoints[i + 1] ELSE <<>>

\* notExistEndpoints[i]; _.each of undefined visits nothing
NotExistAt(notExistEndpoints, i) ==
  IF i <= Len(notExistEndpoints) THEN notExistEndpoints[i] ELSE <<>>

\* a slip in the order of the loops: the events are pushed before the
\* removals
FuncChoicesEventsFirst(func, funcNotExistEndpoints) ==
  <<SpacerEntry(func), FunctionChoice(func)>>
  \o MapChoices(EndpointChoice, func.endpoints)
  \o MapChoices(EventChoice, func.events)
  \o MapChoices(RemovalChoice, funcNotExistEndpoints)

\* the pushes of one iteration of _.each(functions, function(func, i) ...)
FuncChoices(func, funcNotExistEndpoints) ==
  <<SpacerEntry(func), FunctionChoice(func)>>
  \o MapChoices(EndpointChoice, func.endpoints)
  \o MapChoices(RemovalChoice, funcNotExistEndpoints)
  \o MapChoices(EventChoice, func.events)

RECURSIVE BuildChoices(_, _, _)
BuildChoices(functions, i, notExistEndpoints) ==
  IF i > Len(functions) THEN <<>>
  ELSE FuncChoices(functions[i], NotExistAt(notExistEndpoints, i))
       \o BuildChoices(functions, i + 1, notExistEndpoints)

\* ------------------------------------------------------------------------
\* _prompt: the post-selection mapping
\* ------------------------------------------------------------------------
Toggled(item) == "toggled" \in DOMAIN item /\ item.toggled = TRUE
Removal(item) == "removal" \in DOMAIN item /\ item.removal = TRUE
TypeOf(item)  == IF "type" \in DOMAIN item THEN item.type ELSE Undefined

\* a slip in the loop: the `continue` after the removal push is missing
SelectItemNoContinue(options, item) ==
  IF ~Toggled(item) THEN options
  ELSE LET o1 == IF Removal(item) /\ TypeOf(item) = "endpoint"
                 THEN [options EXCEPT !.selectedRemovalEndpoints = Append(@, item.value)]
                 ELSE options
       IN  IF TypeOf(item) = "function"
           THEN [o1 EXCEPT !.selectedFunctions = Append(@, item.value)]
           ELSE IF TypeOf(item) = "endpoint"
           THEN [o1 EXCEPT !.selectedEndpoints = Append(@, item.value)]
           ELSE IF TypeOf(item) = "event"
           THEN [o1 EXCEPT !.selectedEvents = Append(@, item.value)]
           ELSE o1

\* one iteration of the loop over items
SelectItem(options, item) ==
  IF ~Toggled(item) THEN options
  ELSE IF Removal(item) /\ TypeOf(item) = "endpoint"
       THEN [options EXCEPT !.selectedRemovalEndpoints = Append(@, item.value)]
  ELSE IF TypeOf(item) = "function"
       THEN [options EXCEPT !.selectedFunctions = Append(@, item.value)]
  ELSE IF TypeOf(item) = "endpoint"
       THEN [options EXCEPT !.selectedEndpoints = Append(@, item.value)]
  ELSE IF TypeOf(item) = "event"
       THEN [options EXCEPT !.selectedEvents = Append(@, item.value)]
  ELSE options

RECURSIVE SelectItems(_, _, _)
SelectItems(options, its, i) ==
  IF i > Len(its) THEN options
  ELSE SelectItems(SelectItem(options, its[i]), its, i + 1)

\* ------------------------------------------------------------------------
\* State
\* ------------------------------------------------------------------------
VARIABLES
  interactive,  \* S.config.interactive
  functions,    \* SUtils.getFunctionsByCwd(project.getAllFunctions())
  remote,       \* the resources of the REST API at the provider
  thisEvt,      \* _this.evt: the run whose evt object the plugin holds, 0 before the first run
  evt,          \* the evt object of each run: options and data
  pc,           \* each run's position in the promise chain of dashDeploy
  restApiId,    \* each run's local restApiId of _getDeployedResources
  value,        \* each run's listing, while handed from _getDeployedResources to the next callback
  choices,      \* each run's local choices of _prompt, while the prompt is shown
  answer,       \* each run's items, the value the selection prompt resolved with
  calls,        \* the external operations invoked so far; for a deploy or remove operation, with what it returned
  outcome       \* the promise each run of dashDeploy returned

vars == <<interactive, functions, remote, thisEvt, evt, pc, restApiId, value,
          choices, answer, calls, outcome>>

\* limit: 500 of the getResources request
Limit == 500

Min(a, b) == IF a < b THEN a ELSE b

\* APIGateway getResources: one page of at most `limit` resources
GetResources(limit) ==
  [hasItems |-> TRUE, items |-> SubSeq(remote, 1, Min(Len(remote), limit))]

\* the region variable apiGatewayApi, not set in this project
ApiGatewayApi == Undefined

\* getVariables()['apiGatewayApi'] || S.getProject().getName()
RestApiName == IF ApiGatewayApi # Undefined THEN ApiGatewayApi ELSE ProjectName

\* evt.data.deployed / evt.data.removed of a deploy or remove operation:
\* a result for each of the names it was invoked with
Returned(names, d) == [n \in Range(names) |-> d]

\* the names of the external operation invoked by run r in the pending call
PendingNames(r) ==
  LET i == CHOOSE i \in DOMAIN calls : calls[i].run = r /\ calls[i].status = "pending"
  IN  calls[i].options.names


\* the evt object a caller passes to dashDeploy
CallerEvts ==
  {[options |-> [stage |-> s, region |-> g]] :
     s \in {Undefined} \cup Stages, g \in {Undefined} \cup Regions}

\* lines 91-107: evt.data = {} and the defaults
Defaults(e) ==
  [options |->
     [stage  |-> IF e.options.stage # Undefined THEN e.options.stage ELSE Null,
      region |-> e.options.region,
      aliasFunction |-> Null, aliasEndpoint |-> Null, aliasRestApi |-> Null,
      selectedFunctions |-> <<>>, selectedEndpoints |-> <<>>,
      selectedEvents |-> <<>>, selectedRemovalEndpoints |-> <<>>],
   data |->
     [deployedResources |-> [hasItems |-> FALSE, items |-> <<>>],
      notExistEndpoints |-> <<>>,
      deployedFunctions |-> <<>>, deployedEndpoints |-> <<>>,
      removedEndpoints |-> <<>>, deployedEvents |-> <<>>]]

Pending == [state |-> "pending", error |-> "none", evt |-> 0]

\* an external operation is invoked and its promise is pending
InvokeIn(log, r, op, options) ==
  Append(log, [run |-> r, op |-> op, options |-> options,
               status |-> "pending", result |-> <<>>, error |-> "none"])

Invoke(r, op, options) == InvokeIn(calls, r, op, options)

\* the pending external operation of run r settles
SettleIn(log, r, status, result, error) ==
  [i \in DOMAIN log |->
     IF log[i].run = r /\ log[i].status = "pending"
     THEN [log[i] EXCEPT !.status = status, !.result = result, !.error = error]
     ELSE log[i]]

Settle(r, status, result, error) == SettleIn(calls, r, status, result, error)

\* a rejection with no handler down the chain settles the promise of dashDeploy
Rejected(r, e) ==
  /\ outcome' = [outcome EXCEPT ![r] = [state |-> "rejected", error |-> e, evt |-> 0]]
  /\ pc' = [pc EXCEPT ![r] = "rejected"]

Goto(r, l) == pc' = [pc EXCEPT ![r] = l]

\* ------------------------------------------------------------------------
\* dashDeploy: the flow
\* ------------------------------------------------------------------------

\* lines 87-113: the synchronous part of dashDeploy(evt)
DashDeploy(r) ==
  /\ pc[r] = "idle"
  /\ thisEvt' = r
  /\ evt' = [evt EXCEPT ![r] = Defaults(evt[r])]
  /\ Goto(r, "validateAndPrepare")
  /\ UNCHANGED <<interactive, functions, remote, restApiId, value, choices, answer,
                 calls, outcome>>

\* a slip in the guard: the check of S.config.interactive is missing
ValidateAndPrepareUnchecked(r) ==
  /\ pc[r] = "validateAndPrepare"
  /\ Goto(r, "selectStage")
  /\ UNCHANGED <<interactive, functions, remote, thisEvt, evt, restApiId, value,
                 choices, answer, calls, outcome>>

\* lines 147-157
ValidateAndPrepare(r) ==
  /\ pc[r] = "validateAndPrepare"
  /\ IF ~interactive
     THEN Rejected(r, "Sorry, this is only available in interactive mode")
     ELSE Goto(r, "selectStage") /\ UNCHANGED outcome
  /\ UNCHANGED <<interactive, functions, remote, thisEvt, evt, restApiId, value,
                 choices, answer, calls>>

\* line 118: cliPromptSelectStage is shown
SelectStage(r) ==
  /\ pc[r] = "selectStage"
  /\ calls' = Invoke(r, "cliPromptSelectStage", [stage |-> evt[thisEvt].options.stage])
  /\ Goto(r, "awaitStage")
  /\ UNCHANGED <<interactive, functions, remote, thisEvt, evt, restApiId, value,
                 choices, answer, outcome>>

\* lines 119-121
StageSelected(r, stage) ==
  /\ pc[r] = "awaitStage"
  /\ calls' = Settle(r, "resolved", <<>>, "none")
  /\ evt' = [evt EXCEPT ![thisEvt].options.stage = stage]
  /\ Goto(r, "selectRegion")
  /\ UNCHANGED <<interactive, functions, remote, thisEvt, restApiId, value,
                 choices, answer, outcome>>

\* line 124: cliPromptSelectRegion is shown
SelectRegion(r) ==
  /\ pc[r] = "selectRegion"
  /\ calls' = Invoke(r, "cliPromptSelectRegion",
                     [region |-> evt[thisEvt].options.region,
                      stage |-> evt[thisEvt].options.stage])
  /\ Goto(r, "awaitRegion")
  /\ UNCHANGED <<interactive, functions, remote, thisEvt, evt, restApiId, value,
                 choices, answer, outcome>>

\* lines 125-127
RegionSelected(r, region) ==
  /\ pc[r] = "awaitRegion"
  /\ calls' = Settle(r, "resolved", <<>>, "none")
  /\ evt' = [evt EXCEPT ![thisEvt].options.region = region]
  /\ Goto(r, "getDeployedResources")
  /\ UNCHANGED <<interactive, functions, remote, thisEvt, restApiId, value,
                 choices, answer, outcome>>

\* lines 163-175: _getDeployedResources up to the call of getApiByName
GetDeployedResources(r) ==
  /\ pc[r] = "getDeployedResources"
  /\ calls' = Invoke(r, "getApiByName",
                     [restApiName |-> RestApiName,
                      stage |-> evt[thisEvt].options.stage,
                      region |-> evt[thisEvt].options.region])
  /\ Goto(r, "awaitApiByName")
  /\ UNCHANGED <<interactive, functions, remote, thisEvt, evt, restApiId, value,
                 choices, answer, outcome>>

\* lines 176-177: restApiId = restApiData.id, then the getResources request
ApiByNameResolved(r, id) ==
  /\ pc[r] = "awaitApiByName"
  /\ restApiId' = [restApiId EXCEPT ![r] = id]
  /\ calls' = InvokeIn(Settle(r, "resolved", <<>>, "none"), r, "getResources",
                       [restApiId |-> id, limit |-> Limit,
                        stage |-> evt[thisEvt].options.stage,
                        region |-> evt[thisEvt].options.region])
  /\ Goto(r, "awaitResources")
  /\ UNCHANGED <<interactive, functions, remote, thisEvt, evt, value,
                 choices, answer, outcome>>

\* getApiByName rejects: no handler in the chain
ApiByNameRejected(r, e) ==
  /\ pc[r] = "awaitApiByName"
  /\ calls' = Settle(r, "rejected", <<>>, e)
  /\ Rejected(r, e)
  /\ UNCHANGED <<interactive, functions, remote, thisEvt, evt, restApiId, value,
                 choices, answer>>

\* lines 178-180: the request resolves with the listing
ResourcesResolved(r) ==
  /\ pc[r] = "awaitResources"
  /\ LET resources == GetResources(Limit)
     IN  /\ calls' = Settle(r, "resolved", <<>>, "none")
         /\ value' = [value EXCEPT ![r] = resources]
  /\ Goto(r, "storeDeployedResources")
  /\ UNCHANGED <<interactive, functions, remote, thisEvt, evt, restApiId,
                 choices, answer, outcome>>

\* a slip in the chain: the rejection of the request is caught and the chain
\* goes on with no listing
ResourcesRejectedCaught(r, e) ==
  /\ pc[r] = "awaitResources"
  /\ calls' = Settle(r, "rejected", <<>>, e)
  /\ value' = [value EXCEPT ![r] = [hasItems |-> FALSE, items |-> <<>>]]
  /\ Goto(r, "storeDeployedResources")
  /\ UNCHANGED <<interactive, functions, remote, thisEvt, evt, restApiId,
                 choices, answer, outcome>>

\* the getResources request rejects: no handler in the chain
ResourcesRejected(r, e) ==
  /\ pc[r] = "awaitResources"
  /\ calls' = Settle(r, "rejected", <<>>, e)
  /\ Rejected(r, e)
  /\ UNCHANGED <<interactive, functions, remote, thisEvt, evt, restApiId, value,
                 choices, answer>>

\* lines 130-133
StoreDeployedResources(r) ==
  /\ pc[r] = "storeDeployedResources"
  /\ evt' = [evt EXCEPT ![thisEvt].data.deployedResources = value[r]]
  /\ value' = [value EXCEPT ![r] = <<>>]
  /\ Goto(r, "initNotExistEndpoints")
  /\ UNCHANGED <<interactive, functions, remote, thisEvt, restApiId,
                 choices, answer, calls, outcome>>

\* lines 187-240; a throw inside the callback rejects the chain
InitNotExistEndpoints(r) ==
  /\ pc[r] = "initNotExistEndpoints"
  /\ LET res == ForEachFunction(functions, 1, evt[thisEvt].data.deployedResources,
                                evt[thisEvt].data.notExistEndpoints)
     IN  /\ evt' = [evt EXCEPT ![thisEvt].data.notExistEndpoints = res.notExistEndpoints]
         /\ IF res.threw
            THEN Rejected(r, "TypeError")
            ELSE Goto(r, "prompt") /\ UNCHANGED outcome
  /\ UNCHANGED <<interactive, functions, remote, thisEvt, restApiId, value,
                 choices, answer, calls>>

\* a slip in _prompt: the promise of the selection prompt is not returned,
\* so the chain goes on to _deploy while the prompt is shown
PromptNoWait(r) ==
  /\ pc[r] = "prompt"
  /\ LET built == BuildChoices(functions, 1, evt[thisEvt].data.notExistEndpoints)
     IN  /\ choices' = [choices EXCEPT ![r] = built]
         /\ calls' = Invoke(r, "cliPromptSelect", [confirm |-> "Deploy"])
  /\ Goto(r, "deploy")
  /\ UNCHANGED <<interactive, functions, remote, thisEvt, evt, restApiId, value,
                 answer, outcome>>

\* lines 246-313: the choices are built and the selection prompt is shown
Prompt(r) ==
  /\ pc[r] = "prompt"
  /\ LET built == BuildChoices(functions, 1, evt[thisEvt].data.notExistEndpoints)
     IN  /\ choices' = [choices EXCEPT ![r] = built]
         /\ calls' = Invoke(r, "cliPromptSelect", [confirm |-> "Deploy"])
  /\ Goto(r, "awaitSelect")
  /\ UNCHANGED <<interactive, functions, remote, thisEvt, evt, restApiId, value,
                 answer, outcome>>

\* what the selection prompt resolves with: the choices, each annotated
\* toggled
Answer(list, toggled) ==
  [i \in 1..Len(list) |-> list[i] @@ [toggled |-> i \in toggled]]

\* lines 314-334: the post-selection mapping
PromptSelected(r, toggled) ==
  /\ pc[r] = "awaitSelect"
  /\ LET its == Answer(choices[r], toggled)
     IN  /\ calls' = Settle(r, "resolved", <<>>, "none")
         /\ answer' = [answer EXCEPT ![r] = its]
         /\ evt' = [evt EXCEPT ![thisEvt].options = SelectItems(@, its, 1)]
  /\ choices' = [choices EXCEPT ![r] = <<>>]
  /\ Goto(r, "deploy")
  /\ UNCHANGED <<interactive, functions, remote, thisEvt, restApiId, value,
                 outcome>>

\* ------------------------------------------------------------------------
\* _deploy: the four dispatch stages
\* ------------------------------------------------------------------------

DeployOptions(names) ==
  [stage |-> evt[thisEvt].options.stage, region |-> evt[thisEvt].options.region,
   names |-> names]

\* a slip in the executor: functionDeploy is invoked and the promise resolved
\* at once, without waiting for it
DeployNoWait(r) ==
  /\ pc[r] = "deploy"
  /\ answer' = [answer EXCEPT ![r] = <<>>]
  /\ IF Len(evt[thisEvt].options.selectedFunctions) = 0
     THEN UNCHANGED calls
     ELSE calls' = Invoke(r, "functionDeploy",
                          DeployOptions(evt[thisEvt].options.selectedFunctions))
  /\ Goto(r, "deployEndpoints")
  /\ UNCHANGED <<interactive, functions, remote, thisEvt, evt, restApiId, value,
                 choices, outcome>>

\* lines 345-356: the executor of new BbPromise
Deploy(r) ==
  /\ pc[r] = "deploy"
  /\ answer' = [answer EXCEPT ![r] = <<>>]
  /\ IF Len(evt[thisEvt].options.selectedFunctions) = 0
     THEN Goto(r, "deployEndpoints") /\ UNCHANGED calls
     ELSE /\ calls' = Invoke(r, "functionDeploy",
                             DeployOptions(evt[thisEvt].options.selectedFunctions))
          /\ Goto(r, "awaitFunctionDeploy")
  /\ UNCHANGED <<interactive, functions, remote, thisEvt, evt, restApiId, value,
                 choices, outcome>>

\* lines 357-360
FunctionDeployResolved(r, d) ==
  /\ pc[r] = "awaitFunctionDeploy"
  /\ LET deployed == Returned(PendingNames(r), d)
     IN  /\ calls' = Settle(r, "resolved", deployed, "none")
         /\ evt' = [evt EXCEPT ![thisEvt].data.deployedFunctions = deployed]
  /\ Goto(r, "deployEndpoints")
  /\ UNCHANGED <<interactive, functions, remote, thisEvt, restApiId, value,
                 choices, answer, outcome>>

\* functionDeploy rejects: the promise of .then(...) inside the executor is
\* rejected and dropped; neither resolve nor reject is ever called, so the
\* promise of _deploy stays pending
FunctionDeployRejected(r, e) ==
  /\ pc[r] = "awaitFunctionDeploy"
  /\ calls' = Settle(r, "rejected", <<>>, e)
  /\ Goto(r, "unsettled")
  /\ UNCHANGED <<interactive, functions, remote, thisEvt, evt, restApiId, value,
                 choices, answer, outcome>>

\* a slip in the options: the endpoint stage is handed the selected functions
DeployEndpointsWithFunctionNames(r) ==
  /\ pc[r] = "deployEndpoints"
  /\ IF Len(evt[thisEvt].options.selectedEndpoints) = 0
     THEN Goto(r, "deployEvents") /\ UNCHANGED calls
     ELSE /\ calls' = Invoke(r, "endpointDeploy",
                             DeployOptions(evt[thisEvt].options.selectedFunctions))
          /\ Goto(r, "awaitEndpointDeploy")
  /\ UNCHANGED <<interactive, functions, remote, thisEvt, evt, restApiId, value,
                 choices, answer, outcome>>

\* lines 362-373
DeployEndpoints(r) ==
  /\ pc[r] = "deployEndpoints"
  /\ IF Len(evt[thisEvt].options.selectedEndpoints) = 0
     THEN Goto(r, "deployEvents") /\ UNCHANGED calls
     ELSE /\ calls' = Invoke(r, "endpointDeploy",
                             DeployOptions(evt[thisEvt].options.selectedEndpoints))
          /\ Goto(r, "awaitEndpointDeploy")
  /\ UNCHANGED <<interactive, functions, remote, thisEvt, evt, restApiId, value,
                 choices, answer, outcome>>

\* lines 374-376
EndpointDeployResolved(r, d) ==
  /\ pc[r] = "awaitEndpointDeploy"
  /\ LET deployed == Returned(PendingNames(r), d)
     IN  /\ calls' = Settle(r, "resolved", deployed, "none")
         /\ evt' = [evt EXCEPT ![thisEvt].data.deployedEndpoints = deployed]
  /\ Goto(r, "deployEvents")
  /\ UNCHANGED <<interactive, functions, remote, thisEvt, restApiId, value,
                 choices, answer, outcome>>

\* a slip in the chain: the rejection is caught and the chain goes on
EndpointDeployRejectedCaught(r, e) ==
  /\ pc[r] = "awaitEndpointDeploy"
  /\ calls' = Settle(r, "rejected", <<>>, e)
  /\ Goto(r, "deployEvents")
  /\ UNCHANGED <<interactive, functions, remote, thisEvt, evt, restApiId, value,
                 choices, answer, outcome>>

\* endpointDeploy rejects: no handler in the chain
EndpointDeployRejected(r, e) ==
  /\ pc[r] = "awaitEndpointDeploy"
  /\ calls' = Settle(r, "rejected", <<>>, e)
  /\ Rejected(r, e)
  /\ UNCHANGED <<interactive, functions, remote, thisEvt, evt, restApiId, value,
                 choices, answer>>

\* a slip in the guard: the event stage guarded by the selected endpoints
DeployEventsGuardedByEndpoints(r) ==
  /\ pc[r] = "deployEvents"
  /\ IF Len(evt[thisEvt].options.selectedEndpoints) = 0
     THEN Goto(r, "removeEndpoints") /\ UNCHANGED calls
     ELSE /\ calls' = Invoke(r, "eventDeploy",
                             DeployOptions(evt[thisEvt].options.selectedEvents))
          /\ Goto(r, "awaitEventDeploy")
  /\ UNCHANGED <<interactive, functions, remote, thisEvt, evt, restApiId, value,
                 choices, answer, outcome>>

\* lines 378-389
DeployEvents(r) ==
  /\ pc[r] = "deployEvents"
  /\ IF Len(evt[thisEvt].options.selectedEvents) = 0
     THEN Goto(r, "removeEndpoints") /\ UNCHANGED calls
     ELSE /\ calls' = Invoke(r, "eventDeploy",
                             DeployOptions(evt[thisEvt].options.selectedEvents))
          /\ Goto(r, "awaitEventDeploy")
  /\ UNCHANGED <<interactive, functions, remote, thisEvt, evt, restApiId, value,
                 choices, answer, outcome>>

\* lines 390-392
EventDeployResolved(r, d) ==
  /\ pc[r] = "awaitEventDeploy"
  /\ LET deployed == Returned(PendingNames(r), d)
     IN  /\ calls' = Settle(r, "resolved", deployed, "none")
         /\ evt' = [evt EXCEPT ![thisEvt].data.deployedEvents = deployed]
  /\ Goto(r, "removeEndpoints")
  /\ UNCHANGED <<interactive, functions, remote, thisEvt, restApiId, value,
                 choices, answer, outcome>>

\* a slip in the failure path: the outcome mappings are reset when the
\* operation rejects
EventDeployRejectedDiscarding(r, e) ==
  /\ pc[r] = "awaitEventDeploy"
  /\ calls' = Settle(r, "rejected", <<>>, e)
  /\ evt' = [evt EXCEPT ![thisEvt].data.deployedFunctions = <<>>,
                         ![thisEvt].data.deployedEndpoints = <<>>,
                         ![thisEvt].data.deployedEvents = <<>>,
                         ![thisEvt].data.removedEndpoints = <<>>]
  /\ Rejected(r, e)
  /\ UNCHANGED <<interactive, functions, remote, thisEvt, restApiId, value,
                 choices, answer>>

\* eventDeploy rejects: no handler in the chain
EventDeployRejected(r, e) ==
  /\ pc[r] = "awaitEventDeploy"
  /\ calls' = Settle(r, "rejected", <<>>, e)
  /\ Rejected(r, e)
  /\ UNCHANGED <<interactive, functions, remote, thisEvt, evt, restApiId, value,
                 choices, answer>>

\* lines 394-406
RemoveEndpoints(r) ==
  /\ pc[r] = "removeEndpoints"
  /\ IF Len(evt[thisEvt].options.selectedRemovalEndpoints) = 0
     THEN Goto(r, "return") /\ UNCHANGED calls
     ELSE /\ calls' = Invoke(r, "endpointRemove",
                             DeployOptions(evt[thisEvt].options.selectedRemovalEndpoints)
                               @@ [skipLocal |-> TRUE])
          /\ Goto(r, "awaitEndpointRemove")
  /\ UNCHANGED <<interactive, functions, remote, thisEvt, evt, restApiId, value,
                 choices, answer, outcome>>

\* lines 407-409
EndpointRemoveResolved(r, d) ==
  /\ pc[r] = "awaitEndpointRemove"
  /\ LET removed == Returned(PendingNames(r), d)
     IN  /\ calls' = Settle(r, "resolved", removed, "none")
         /\ evt' = [evt EXCEPT ![thisEvt].data.removedEndpoints = removed]
  /\ Goto(r, "return")
  /\ UNCHANGED <<interactive, functions, remote, thisEvt, restApiId, value,
                 choices, answer, outcome>>

\* endpointRemove rejects: no handler in the chain
EndpointRemoveRejected(r, e) ==
  /\ pc[r] = "awaitEndpointRemove"
  /\ calls' = Settle(r, "rejected", <<>>, e)
  /\ Rejected(r, e)
  /\ UNCHANGED <<interactive, functions, remote, thisEvt, evt, restApiId, value,
                 choices, answer>>

\* lines 137-139: return _this.evt
Return(r) ==
  /\ pc[r] = "return"
  /\ outcome' = [outcome EXCEPT ![r] = [state |-> "fulfilled", error |-> "none", evt |-> thisEvt]]
  /\ Goto(r, "done")
  /\ UNCHANGED <<interactive, functions, remote, thisEvt, evt, restApiId, value,
                 choices, answer, calls>>

\* ------------------------------------------------------------------------
\* Specification of one run of dashDeploy
\* ------------------------------------------------------------------------

\* the inputs of the flow: at most one local function and one deployed
\* resource, enough for every combination of empty and non-empty selections
FlowFunctionDefs ==
  {[name |-> users, endpoints |-> e, events |-> v] :
     e \in {<<>>, <<[path |-> users, method |-> GET]>>},
     v \in {<<>>, <<[name |-> sched, type |-> "schedule"]>>}}

FlowProjects == {<<>>} \cup {<<f>> : f \in FlowFunctionDefs}

FlowRemotes ==
  {<<>>,
   <<[type |-> "object", pathPart |-> users,
      resourceMethods |-> [defined |-> TRUE, keys |-> <<GET, DELETE>>]]>>}

InitRuns(active) ==
  /\ thisEvt = 0
  /\ evt \in [Runs -> CallerEvts]
  /\ \A r \in Runs \ active : evt[r] = [options |-> [stage |-> Undefined, region |-> Undefined]]
  /\ pc = [r \in Runs |-> IF r \in active THEN "idle" ELSE "off"]
  /\ restApiId = [r \in Runs |-> Undefined]
  /\ value = [r \in Runs |-> <<>>]
  /\ choices = [r \in Runs |-> <<>>]
  /\ answer = [r \in Runs |-> <<>>]
  /\ calls = <<>>
  /\ outcome = [r \in Runs |-> Pending]

Init ==
  /\ interactive \in BOOLEAN
  /\ functions \in FlowProjects
  /\ remote \in FlowRemotes
  /\ InitRuns({1})

Next ==
  \E r \in Runs :
    \/ DashDeploy(r)
    \/ ValidateAndPrepare(r)
    \/ SelectStage(r)
    \/ \E stage \in Stages : StageSelected(r, stage)
    \/ SelectRegion(r)
    \/ \E region \in Regions : RegionSelected(r, region)
    \/ GetDeployedResources(r)
    \/ \E id \in ApiIds : ApiByNameResolved(r, id)
    \/ \E e \in SErrors : ApiByNameRejected(r, e)
    \/ ResourcesResolved(r)
    \/ \E e \in SErrors : ResourcesRejected(r, e)
    \/ StoreDeployedResources(r)
    \/ InitNotExistEndpoints(r)
    \/ Prompt(r)
    \/ \E toggled \in SUBSET (1..Len(choices[r])) : PromptSelected(r, toggled)
    \/ Deploy(r)
    \/ \E d \in DeployResults : FunctionDeployResolved(r, d)
    \/ \E e \in SErrors : FunctionDeployRejected(r, e)
    \/ DeployEndpoints(r)
    \/ \E d \in DeployResults : EndpointDeployResolved(r, d)
    \/ \E e \in SErrors : EndpointDeployRejected(r, e)
    \/ DeployEvents(r)
    \/ \E d \in DeployResults : EventDeployResolved(r, d)
    \/ \E e \in SErrors : EventDeployRejected(r, e)
    \/ RemoveEndpoints(r)
    \/ \E d \in DeployResults : EndpointRemoveResolved(r, d)
    \/ \E e \in SErrors : EndpointRemoveRejected(r, e)
    \/ Return(r)

Spec == Init /\ [][Next]_vars

\* ------------------------------------------------------------------------
\* Specification of the reconciliation: orphan detection and choice
\* building applied to bounded projects and deployed listings
\* ------------------------------------------------------------------------

\* the external operations of a run up to the stored listing, all resolved
FetchedLog(r, stage, region, id) ==
  LET l1 == InvokeIn(<<>>, r, "cliPromptSelectStage", [stage |-> Null])
      l2 == InvokeIn(SettleIn(l1, r, "resolved", <<>>, "none"), r, "cliPromptSelectRegion",
                     [region |-> Undefined, stage |-> stage])
      l3 == InvokeIn(SettleIn(l2, r, "resolved", <<>>, "none"), r, "getApiByName",
                     [restApiName |-> RestApiName, stage |-> stage, region |-> region])
      l4 == InvokeIn(SettleIn(l3, r, "resolved", <<>>, "none"), r, "getResources",
                     [restApiId |-> id, limit |-> Limit, stage |-> stage, region |-> region])
  IN  SettleIn(l4, r, "resolved", <<>>, "none")

\* run 1 has fetched and stored the deployed resources of its stage and
\* region; _initNotExistEndpoints is next
InitRecon ==
  /\ interactive = TRUE
  /\ functions \in Projects
  /\ remote \in Remotes
  /\ thisEvt = 1
  /\ \E stage \in Stages, region \in Regions, id \in ApiIds :
       LET caller == [options |-> [stage |-> Undefined, region |-> Undefined]]
           resources == GetResources(Limit)
       IN  /\ evt = [r \in Runs |->
                       IF r = 1
                       THEN [Defaults(caller) EXCEPT !.options.stage = stage,
                                                     !.options.region = region,
                                                     !.data.deployedResources = resources]
                       ELSE caller]
           /\ restApiId = [r \in Runs |-> IF r = 1 THEN id ELSE Undefined]
           /\ value = [r \in Runs |-> <<>>]
           /\ calls = FetchedLog(1, stage, region, id)
  /\ pc = [r \in Runs |-> IF r = 1 THEN "initNotExistEndpoints" ELSE "off"]
  /\ choices = [r \in Runs |-> <<>>]
  /\ answer = [r \in Runs |-> <<>>]
  /\ outcome = [r \in Runs |-> Pending]

NextRecon ==
  \E r \in Runs :
    \/ InitNotExistEndpoints(r)
    \/ Prompt(r)

SpecRecon == InitRecon /\ [][NextRecon]_vars

\* the states of SpecRecon are states of the flow: a run that reaches
\* _initNotExistEndpoints with a one-run history is in the state InitRecon
\* describes
ReconStateOfFlow ==
  (pc[1] = "initNotExistEndpoints" /\ evt[1].options.stage # Null
     /\ calls[1].options.stage = Null /\ calls[2].options.region = Undefined)
  => /\ thisEvt = 1
     /\ evt[1] = [Defaults([options |-> [stage |-> Undefined, region |-> Undefined]])
                    EXCEPT !.options.stage = evt[1].options.stage,
                           !.options.region = evt[1].options.region,
                           !.data.deployedResources = GetResources(Limit)]
     /\ calls = FetchedLog(1, evt[1].options.stage, evt[1].options.region, restApiId[1])
     /\ value[1] = <<>>
     /\ choices[1] = <<>> /\ answer[1] = <<>> /\ outcome[1] = Pending

\* ------------------------------------------------------------------------
\* Specification of two overlapping runs of dashDeploy on one plugin
\* instance: two callers each pass their own evt object, and the second
\* call is made while the first run is suspended
\* ------------------------------------------------------------------------

\* the positions where a run waits for a prompt or an external operation
SuspendedAt ==
  {"awaitStage", "awaitRegion", "awaitApiByName", "awaitResources", "awaitSelect",
   "awaitFunctionDeploy", "awaitEndpointDeploy", "awaitEventDeploy", "awaitEndpointRemove"}

\* the positions where a run has no callback left
EndedAt == {"done", "rejected", "unsettled"}

\* the schedules considered: a later run takes its steps, from its call to
\* its end, while every earlier run is suspended, and an earlier run is
\* resumed when the later ones have not been called yet or have ended
Turn(r) ==
  \A q \in Runs \ {r} :
    IF q < r THEN pc[q] \in SuspendedAt ELSE pc[q] \in {"off", "idle"} \cup EndedAt

OverlapFunctions ==
  <<[name |-> users, endpoints |-> <<[path |-> users, method |-> GET]>>,
     events |-> <<[name |-> sched, type |-> "schedule"]>>]>>

OverlapRemote ==
  <<[type |-> "object", pathPart |-> users,
     resourceMethods |-> [defined |-> TRUE, keys |-> <<DELETE>>]]>>

\* what the operator toggles in the overlapping runs: any of the selectable
\* choices
OverlapToggles(r) == SUBSET {k \in DOMAIN choices[r] : "spacer" \notin DOMAIN choices[r][k]}

\* what the external operations of the overlapping runs return, and the
\* error they reject with
OverlapResults == {"created"}
OverlapErrors  == {"Throttled"}

InitOverlap ==
  /\ interactive = TRUE
  /\ functions = OverlapFunctions
  /\ remote = OverlapRemote
  /\ InitRuns({1, 2})
  /\ evt[1].options = [stage |-> Undefined, region |-> Undefined]
  /\ evt[2].options = [stage |-> "dev", region |-> Undefined]

NextOverlap ==
  \E r \in Runs :
    \/ Turn(r) /\ DashDeploy(r)
    \/ Turn(r) /\ ValidateAndPrepare(r)
    \/ Turn(r) /\ SelectStage(r)
    \/ \E stage \in Stages : Turn(r) /\ StageSelected(r, stage)
    \/ Turn(r) /\ SelectRegion(r)
    \/ \E region \in Regions : Turn(r) /\ RegionSelected(r, region)
    \/ Turn(r) /\ GetDeployedResources(r)
    \/ \E id \in ApiIds : Turn(r) /\ ApiByNameResolved(r, id)
    \/ \E e \in OverlapErrors : Turn(r) /\ ApiByNameRejected(r, e)
    \/ Turn(r) /\ ResourcesResolved(r)
    \/ \E e \in OverlapErrors : Turn(r) /\ ResourcesRejected(r, e)
    \/ Turn(r) /\ StoreDeployedResources(r)
    \/ Turn(r) /\ InitNotExistEndpoints(r)
    \/ Turn(r) /\ Prompt(r)
    \/ \E toggled \in OverlapToggles(r) : Turn(r) /\ PromptSelected(r, toggled)
    \/ Turn(r) /\ Deploy(r)
    \/ \E d \in OverlapResults : Turn(r) /\ FunctionDeployResolved(r, d)
    \/ \E e \in OverlapErrors : Turn(r) /\ FunctionDeployRejected(r, e)
    \/ Turn(r) /\ DeployEndpoints(r)
    \/ \E d \in OverlapResults : Turn(r) /\ EndpointDeployResolved(r, d)
    \/ \E e \in OverlapErrors : Turn(r) /\ EndpointDeployRejected(r, e)
    \/ Turn(r) /\ DeployEvents(r)
    \/ \E d \in OverlapResults : Turn(r) /\ EventDeployResolved(r, d)
    \/ \E e \in OverlapErrors : Turn(r) /\ EventDeployRejected(r, e)
    \/ Turn(r) /\ RemoveEndpoints(r)
    \/ \E d \in OverlapResults : Turn(r) /\ EndpointRemoveResolved(r, d)
    \/ \E e \in OverlapErrors : Turn(r) /\ EndpointRemoveRejected(r, e)
    \/ Turn(r) /\ Return(r)

SpecOverlap == InitOverlap /\ [][NextOverlap]_vars

\* ------------------------------------------------------------------------
\* Specification of one run of dashDeploy against a REST API with as many
\* resources as one getResources page holds, or one more
\* ------------------------------------------------------------------------

\* a deployed resource that matches no local function
PageFiller ==
  [type |-> "object", pathPart |-> posts,
   resourceMethods |-> [defined |-> FALSE, keys |-> <<>>]]

\* the deployed resource of the local function users
PagedResource ==
  [type |-> "object", pathPart |-> users,
   resourceMethods |-> [defined |-> TRUE, keys |-> <<GET, DELETE>>]]

\* n resources, the last of them the resource of users
PagedRemote(n) == [j \in 1..n |-> IF j = n THEN PagedResource ELSE PageFiller]

PagedRemotes == {PagedRemote(Limit), PagedRemote(Limit + 1)}

InitPaging ==
  /\ interactive = TRUE
  /\ functions = <<[name |-> users, endpoints |-> <<[path |-> users, method |-> GET]>>,
                    events |-> <<[name |-> sched, type |-> "schedule"]>>]>>
  /\ remote \in PagedRemotes
  /\ InitRuns({1})

SpecPaging == InitPaging /\ [][Next]_vars

\* ------------------------------------------------------------------------
\* Properties
\* ------------------------------------------------------------------------

\* the four dispatch stages, in the order of _deploy
DeployOps == <<"functionDeploy", "endpointDeploy", "eventDeploy", "endpointRemove">>

IsDeployCall(i) == calls[i].op \in Range(DeployOps)

StageOf(op) == CHOOSE k \in DOMAIN DeployOps : DeployOps[k] = op

\* dashDeploy has been called for run r: its evt carries options and data
Started(r) == pc[r] \notin {"off", "idle"}

\* the selected-* sequence and the outcome mapping of stage k
Selected(r, k) ==
  IF k = 1 THEN evt[r].options.selectedFunctions
  ELSE IF k = 2 THEN evt[r].options.selectedEndpoints
  ELSE IF k = 3 THEN evt[r].options.selectedEvents
  ELSE evt[r].options.selectedRemovalEndpoints

OutcomeMapping(r, k) ==
  IF k = 1 THEN evt[r].data.deployedFunctions
  ELSE IF k = 2 THEN evt[r].data.deployedEndpoints
  ELSE IF k = 3 THEN evt[r].data.deployedEvents
  ELSE evt[r].data.removedEndpoints

\* the calls of stage k's operation by run r
StageCalls(r, k) == {i \in DOMAIN calls : calls[i].run = r /\ calls[i].op = DeployOps[k]}

\* C1: whenever the external operation of a dispatch stage has rejected, the
\* promise dashDeploy returned for that run is rejected with the same error.
C1_StageFailurePropagates ==
  \A i \in DOMAIN calls :
    (IsDeployCall(i) /\ calls[i].status = "rejected")
    => outcome[calls[i].run] = [state |-> "rejected", error |-> calls[i].error, evt |-> 0]

\* C2: after the external operation of a stage has rejected, the run invokes
\* no further stage operation: neither a later stage nor the failed one again.
C2_NoStageAfterFailure ==
  \A i, j \in DOMAIN calls :
    (i < j /\ calls[i].run = calls[j].run /\ IsDeployCall(i) /\ IsDeployCall(j))
    => calls[i].status # "rejected"

\* endpointDeploy failed while events and removals were selected, and the run
\* has ended
C2_Witness ==
  \E i \in DOMAIN calls :
    /\ calls[i].op = "endpointDeploy" /\ calls[i].status = "rejected"
    /\ pc[calls[i].run] = "rejected"
    /\ Len(evt[calls[i].run].options.selectedEvents) > 0
    /\ Len(evt[calls[i].run].options.selectedRemovalEndpoints) > 0

\* C3: for each of the four kinds, while its selected-* sequence is empty its
\* external operation has not been invoked by the run and its outcome
\* mapping is the empty mapping, up to and including the end of the run.
C3_EmptySelectionNotDispatched ==
  \A r \in Runs : Started(r) =>
    \A k \in DOMAIN DeployOps :
      Len(Selected(r, k)) = 0 => (StageCalls(r, k) = {} /\ OutcomeMapping(r, k) = <<>>)

\* the scenario of the spec: only a function and a removal were selected and
\* the run has ended fulfilled
C3_Witness ==
  \E r \in Runs :
    /\ pc[r] = "done"
    /\ Len(Selected(r, 1)) > 0 /\ Len(Selected(r, 4)) > 0
    /\ Len(Selected(r, 2)) = 0 /\ Len(Selected(r, 3)) = 0

\* C4: when a run ends with no stage failed, each operation whose selected-*
\* sequence is non-empty was invoked exactly once, with the run's stage and
\* region and exactly that sequence as names (endpointRemove also with
\* skipLocal = true), and what it returned is the stored outcome mapping.
C4_EachSelectionDispatchedOnce ==
  \A r \in Runs : pc[r] = "done" =>
    \A k \in DOMAIN DeployOps :
      Len(Selected(r, k)) > 0 =>
        /\ Cardinality(StageCalls(r, k)) = 1
        /\ \A i \in StageCalls(r, k) :
             /\ calls[i].options.stage = evt[r].options.stage
             /\ calls[i].options.region = evt[r].options.region
             /\ calls[i].options.names = Selected(r, k)
             /\ DOMAIN calls[i].options =
                  IF k = 4 THEN {"stage", "region", "names", "skipLocal"}
                  ELSE {"stage", "region", "names"}
             /\ k = 4 => calls[i].options.skipLocal = TRUE
             /\ calls[i].status = "resolved"
             /\ OutcomeMapping(r, k) = calls[i].result

\* a run ended fulfilled with all four kinds selected
C4_Witness ==
  \E r \in Runs :
    /\ pc[r] = "done" /\ outcome[r].state = "fulfilled"
    /\ \A k \in DOMAIN DeployOps : Len(Selected(r, k)) > 0
    /\ evt[r].options.stage \in Stages /\ evt[r].options.region \in Regions

\* C5: at most one stage operation is in flight, and whenever a run has
\* invoked two stage operations the earlier one belongs to an earlier stage,
\* has resolved, and its result is stored in the run's outcome mapping.
C5_StagesSequential ==
  /\ Cardinality({i \in DOMAIN calls : IsDeployCall(i) /\ calls[i].status = "pending"}) <= 1
  /\ \A i, j \in DOMAIN calls :
       (i < j /\ calls[i].run = calls[j].run /\ IsDeployCall(i) /\ IsDeployCall(j))
       => /\ StageOf(calls[i].op) < StageOf(calls[j].op)
          /\ calls[i].status = "resolved"
          /\ OutcomeMapping(calls[i].run, StageOf(calls[i].op)) = calls[i].result

\* all four operations were invoked by one run, the last still in flight
C5_Witness ==
  \E r \in Runs :
    /\ \A k \in DOMAIN DeployOps : StageCalls(r, k) # {}
    /\ \E i \in StageCalls(r, 4) : calls[i].status = "pending"

\* --- orphan detection ----------------------------------------------------

\* run r has finished _initNotExistEndpoints without a throw
Detected(r) == pc[r] \in {"prompt", "awaitSelect"}

Listing(r) == evt[r].data.deployedResources.items

MatchesOf(r, f) == {j \in DOMAIN Listing(r) : Listing(r)[j].pathPart = f.name}

\* the first item of the listing whose pathPart is the function's name
FirstMatch(r, f) ==
  Listing(r)[CHOOSE j \in MatchesOf(r, f) : \A k \in MatchesOf(r, f) : j <= k]

Count(seq, x) == Cardinality({k \in DOMAIN seq : seq[k] = x})

\* C6: for every local function with a matching deployed resource and every
\* method key m of that resource, "<pathPart>~m" occurs in the function's
\* orphan list exactly once if no endpoint of the function has method m, and
\* not at all if one has.
C6_OrphanKeys ==
  \A r \in Runs : Detected(r) =>
    \A i \in DOMAIN functions :
      (MatchesOf(r, functions[i]) # {} /\ FirstMatch(r, functions[i]).resourceMethods.defined)
      => LET res == FirstMatch(r, functions[i])
         IN  \A k \in DOMAIN res.resourceMethods.keys :
               LET m == res.resourceMethods.keys[k]
                   local == \E n \in DOMAIN functions[i].endpoints :
                              functions[i].endpoints[n].method = m
               IN  Count(evt[r].data.notExistEndpoints[i], res.pathPart \o <<"~">> \o m)
                     = IF local THEN 0 ELSE 1

\* the scenario of the spec: users with local GET and deployed {GET, DELETE}
\* has the orphan list ["users~DELETE"]
C6_Witness ==
  \E r \in Runs : Detected(r) /\
    \E i \in DOMAIN functions :
      /\ functions[i].name = users
      /\ functions[i].endpoints = <<[path |-> users, method |-> GET]>>
      /\ MatchesOf(r, functions[i]) # {}
      /\ FirstMatch(r, functions[i]).resourceMethods = [defined |-> TRUE, keys |-> <<GET, DELETE>>]
      /\ evt[r].data.notExistEndpoints[i]
           = << <<"u", "s", "e", "r", "s", "~", "D", "E", "L", "E", "T", "E">> >>

\* C7: once orphan detection has run, it has not thrown, and every local
\* function with no matching deployed resource, or whose matching resource
\* has no resourceMethods, has an empty orphan list.
C7_NoMatchNoOrphans ==
  \A r \in Runs : (Started(r) /\ pc[r] # "initNotExistEndpoints") =>
    \A i \in DOMAIN functions :
      (MatchesOf(r, functions[i]) = {} \/ ~FirstMatch(r, functions[i]).resourceMethods.defined)
      => /\ pc[r] # "rejected" /\ outcome[r].state # "rejected"
         /\ i <= Len(evt[r].data.notExistEndpoints)
         /\ evt[r].data.notExistEndpoints[i] = <<>>

\* detection has run on a project with an unmatched function and a function
\* whose matching resource has no resourceMethods
C7_Witness ==
  \E r \in Runs : Detected(r) /\
    \E i, j \in DOMAIN functions :
      /\ MatchesOf(r, functions[i]) = {}
      /\ MatchesOf(r, functions[j]) # {}
      /\ ~FirstMatch(r, functions[j]).resourceMethods.defined

\* --- the selection prompt ------------------------------------------------

IsHeader(c) == "spacer" \in DOMAIN c

\* the kind of a choice: function, endpoint, endpoint-removal or event
KindOf(c) == <<c.type, "removal" \in DOMAIN c /\ c.removal = TRUE>>

\* C8: the four selected-* sequences are exactly the values of the toggled
\* items of their kind, in order: removal-flagged endpoints go to
\* selectedRemovalEndpoints only, and items not toggled and headers go
\* nowhere.
IsOfKind(item, type, removal) ==
  /\ "toggled" \in DOMAIN item /\ item.toggled = TRUE
  /\ ~IsHeader(item)
  /\ KindOf(item) = <<type, removal>>

ToggledFunction(item) == IsOfKind(item, "function", FALSE)
ToggledEndpoint(item) == IsOfKind(item, "endpoint", FALSE)
ToggledEvent(item)    == IsOfKind(item, "event", FALSE)
ToggledRemoval(item)  == IsOfKind(item, "endpoint", TRUE)

ValuesOf(its) == [k \in DOMAIN its |-> its[k].value]

C8_SelectionPartition ==
  \A r \in Runs : pc[r] = "deploy" =>
    /\ evt[r].options.selectedFunctions = ValuesOf(SelectSeq(answer[r], ToggledFunction))
    /\ evt[r].options.selectedEndpoints = ValuesOf(SelectSeq(answer[r], ToggledEndpoint))
    /\ evt[r].options.selectedEvents = ValuesOf(SelectSeq(answer[r], ToggledEvent))
    /\ evt[r].options.selectedRemovalEndpoints = ValuesOf(SelectSeq(answer[r], ToggledRemoval))

\* the prompt returned a toggled header, a toggled removal, a toggled
\* endpoint and a function that is not toggled
C8_Witness ==
  \E r \in Runs : pc[r] = "deploy" /\
    \E a, b, c, d \in DOMAIN answer[r] :
      /\ IsHeader(answer[r][a]) /\ answer[r][a].toggled
      /\ ToggledRemoval(answer[r][b])
      /\ ToggledEndpoint(answer[r][c])
      /\ ~IsHeader(answer[r][d]) /\ answer[r][d].type = "function" /\ ~answer[r][d].toggled

\* C9: the values of the choices built for the prompt are unique within
\* their kind across the whole list.
C9_ValuesUniqueWithinKind ==
  \A r \in Runs :
    \A a, b \in DOMAIN choices[r] :
      (a # b /\ ~IsHeader(choices[r][a]) /\ ~IsHeader(choices[r][b])
         /\ KindOf(choices[r][a]) = KindOf(choices[r][b]))
      => choices[r][a].value # choices[r][b].value

RECURSIVE SumOver(_, _)
SumOver(f, n) == IF n = 0 THEN 0 ELSE f[n] + SumOver(f, n - 1)

\* C10: the selectable choices number the sum over the local functions of
\* 1 + endpoints + orphan keys + events; there is exactly one header per
\* function, and a header has no type and no value.
C10_ChoiceCount ==
  \A r \in Runs : pc[r] = "awaitSelect" =>
    LET perFunction == [i \in DOMAIN functions |->
                          1 + Len(functions[i].endpoints)
                            + Len(evt[r].data.notExistEndpoints[i])
                            + Len(functions[i].events)]
        headers == {k \in DOMAIN choices[r] : IsHeader(choices[r][k])}
    IN  /\ Len(choices[r]) - Cardinality(headers) = SumOver(perFunction, Len(functions))
        /\ Cardinality(headers) = Len(functions)
        /\ \A i \in DOMAIN functions :
             Cardinality({k \in headers : choices[r][k].spacer = functions[i].name}) = 1
        /\ \A k \in headers : DOMAIN choices[r][k] = {"spacer"}

\* the prompt is shown for two functions, only the first with orphans, and
\* endpoints and events among them
C10_Witness ==
  \E r \in Runs :
    /\ pc[r] = "awaitSelect"
    /\ Len(functions) = 2
    /\ Len(evt[r].data.notExistEndpoints[1]) = 2
    /\ Len(evt[r].data.notExistEndpoints[2]) = 0
    /\ Len(functions[1].events) > 0
    /\ Len(functions[2].endpoints) > 0

\* --- the steps before the dispatch ---------------------------------------

NotInteractiveMessage == "Sorry, this is only available in interactive mode"

\* the calls of operation op by run r
CallsOf(r, op) == {i \in DOMAIN calls : calls[i].run = r /\ calls[i].op = op}

\* C11: when the context is not interactive, a run never gets past
\* _validateAndPrepare: it invokes no external operation at all (no stage or
\* region prompt, no getApiByName or getResources, no selection prompt, no
\* deploy or remove operation), it builds no choices, stores no listing and
\* no orphan list, and once _validateAndPrepare has run the promise of
\* dashDeploy is rejected with the not-interactive error.
C11_NotInteractiveFailsFirst ==
  ~interactive =>
    \A r \in Runs :
      /\ CallsOf(r, "cliPromptSelectStage") = {} /\ CallsOf(r, "cliPromptSelectRegion") = {}
      /\ CallsOf(r, "getApiByName") = {} /\ CallsOf(r, "getResources") = {}
      /\ CallsOf(r, "cliPromptSelect") = {}
      /\ \A k \in DOMAIN DeployOps : StageCalls(r, k) = {}
      /\ choices[r] = <<>> /\ answer[r] = <<>> /\ value[r] = <<>>
      /\ pc[r] \in {"off", "idle", "validateAndPrepare", "rejected"}
      /\ Started(r) =>
           /\ ~evt[r].data.deployedResources.hasItems
           /\ evt[r].data.notExistEndpoints = <<>>
           /\ (pc[r] # "validateAndPrepare") =>
                outcome[r] = [state |-> "rejected", error |-> NotInteractiveMessage, evt |-> 0]

\* a run in a context that is not interactive has ended rejected
C11_Witness ==
  /\ ~interactive
  /\ \E r \in Runs : pc[r] = "rejected" /\ outcome[r].error = NotInteractiveMessage
                      /\ functions # <<>> /\ remote # <<>>

FetchOps == {"getApiByName", "getResources"}

\* C12: when the lookup of the API by name or the getResources request has
\* rejected, the run has ended rejected with that same error, and it has
\* stored no listing, computed no orphan list, built no choices, shown no
\* selection prompt and invoked no dispatch operation: the rejected call is
\* the last external operation of the run.
C12_FetchFailureAborts ==
  \A i \in DOMAIN calls :
    (calls[i].op \in FetchOps /\ calls[i].status = "rejected")
    => LET r == calls[i].run
       IN  /\ pc[r] = "rejected"
           /\ outcome[r] = [state |-> "rejected", error |-> calls[i].error, evt |-> 0]
           /\ ~evt[r].data.deployedResources.hasItems
           /\ evt[r].data.notExistEndpoints = <<>>
           /\ choices[r] = <<>> /\ answer[r] = <<>>
           /\ CallsOf(r, "cliPromptSelect") = {}
           /\ \A k \in DOMAIN DeployOps : StageCalls(r, k) = {}
           /\ \A j \in DOMAIN calls : calls[j].run = r => j <= i

\* the getResources request of a run rejected, after the lookup of the API
\* resolved, in a project with a local function and a deployed resource
C12_Witness ==
  \E i \in DOMAIN calls :
    /\ calls[i].op = "getResources" /\ calls[i].status = "rejected"
    /\ calls[i].error = "Throttled"
    /\ restApiId[calls[i].run] \in ApiIds
    /\ functions # <<>> /\ remote # <<>>

\* --- overlapping runs ----------------------------------------------------

DispatchAt ==
  {"deploy", "awaitFunctionDeploy", "deployEndpoints", "awaitEndpointDeploy",
   "deployEvents", "awaitEventDeploy", "removeEndpoints", "awaitEndpointRemove",
   "return", "done"}

\* C13: every run works on its own evt object only: once its listing is
\* stored its evt holds it, once detection has run its evt holds one orphan
\* list per local function, after the selection prompt its four selected-*
\* sequences are the toggled values of its own answer, every dispatch
\* operation it invokes is handed its own selected-* sequence, what such an
\* operation returned is its own outcome mapping, and its promise is
\* fulfilled with its own evt object.
C13_InvocationsIsolated ==
  \A r \in Runs :
    /\ pc[r] \in {"initNotExistEndpoints", "prompt", "awaitSelect"} \cup DispatchAt
         => evt[r].data.deployedResources = GetResources(Limit)
    /\ pc[r] \in {"prompt", "awaitSelect"} \cup DispatchAt
         => Len(evt[r].data.notExistEndpoints) = Len(functions)
    /\ pc[r] = "deploy"
         => /\ Selected(r, 1) = ValuesOf(SelectSeq(answer[r], ToggledFunction))
            /\ Selected(r, 2) = ValuesOf(SelectSeq(answer[r], ToggledEndpoint))
            /\ Selected(r, 3) = ValuesOf(SelectSeq(answer[r], ToggledEvent))
            /\ Selected(r, 4) = ValuesOf(SelectSeq(answer[r], ToggledRemoval))
    /\ \A k \in DOMAIN DeployOps : \A i \in StageCalls(r, k) :
         /\ calls[i].options.names = Selected(r, k)
         /\ calls[i].status = "resolved" => OutcomeMapping(r, k) = calls[i].result
    /\ outcome[r].state = "fulfilled" => outcome[r].evt = r

\* --- partial outcomes ----------------------------------------------------

\* what the operation of stage k returned to run r, the empty mapping when
\* the stage was not invoked
StageResult(r, k) ==
  IF StageCalls(r, k) = {} THEN <<>>
  ELSE calls[CHOOSE i \in StageCalls(r, k) : TRUE].result

\* C14: when the operation of stage k has rejected, the run's evt data still
\* holds, for every stage before k, the mapping that stage's operation
\* returned (one entry per selected name; the empty mapping for a stage
\* whose selection was empty), and the mappings of stages k..4 are empty.
C14_PartialOutcomePreserved ==
  \A i \in DOMAIN calls :
    (IsDeployCall(i) /\ calls[i].status = "rejected")
    => LET r == calls[i].run
           k == StageOf(calls[i].op)
       IN  \A j \in DOMAIN DeployOps :
             IF j < k
             THEN /\ OutcomeMapping(r, j) = StageResult(r, j)
                  /\ DOMAIN OutcomeMapping(r, j) = Range(Selected(r, j))
                  /\ \A n \in DOMAIN OutcomeMapping(r, j) :
                       OutcomeMapping(r, j)[n] \in DeployResults
             ELSE OutcomeMapping(r, j) = <<>>

\* eventDeploy rejected after functionDeploy and endpointDeploy had
\* returned their results, with a removal selected as well
C14_Witness ==
  \E i \in DOMAIN calls :
    /\ calls[i].op = "eventDeploy" /\ calls[i].status = "rejected"
    /\ pc[calls[i].run] = "rejected"
    /\ evt[calls[i].run].data.deployedFunctions = [n \in {users} |-> "created"]
    /\ DOMAIN evt[calls[i].run].data.deployedEndpoints # {}
    /\ Len(evt[calls[i].run].options.selectedRemovalEndpoints) > 0

\* --- the deployed listing ------------------------------------------------

\* the resources of the REST API at the provider whose pathPart is the
\* function's name
RemoteMatchesOf(f) == {j \in DOMAIN remote : remote[j].pathPart = f.name}

\* C15: the deployed-resource collection a run stores is the whole listing
\* of the REST API, and after detection every local function whose first
\* deployed resource at the provider has resourceMethods has, in its orphan
\* list, the key of each of that resource's methods that no local endpoint
\* has, wherever in the listing the resource is.
C15_ListingComplete ==
  \A r \in Runs :
    /\ pc[r] \in {"initNotExistEndpoints", "prompt", "awaitSelect"} \cup DispatchAt
         => evt[r].data.deployedResources.items = remote
    /\ pc[r] \in {"prompt", "awaitSelect"} \cup DispatchAt
         => \A i \in DOMAIN functions :
              RemoteMatchesOf(functions[i]) # {}
              => LET first == CHOOSE j \in RemoteMatchesOf(functions[i]) :
                                \A k \in RemoteMatchesOf(functions[i]) : j <= k
                     res == remote[first]
                 IN  res.resourceMethods.defined
                     => \A k \in DOMAIN res.resourceMethods.keys :
                          LET m == res.resourceMethods.keys[k]
                          IN  (\A n \in DOMAIN functions[i].endpoints :
                                 functions[i].endpoints[n].method # m)
                              => Key(res.pathPart, m)
                                   \in Range(evt[r].data.notExistEndpoints[i])

\* --- the order of the flow -----------------------------------------------

ResolvedCallsOf(r, op) == {i \in CallsOf(r, op) : calls[i].status = "resolved"}

\* C16: a run is in _deploy or beyond only after its selection prompt has
\* resolved; every dispatch operation was invoked after the selection prompt
\* resolved and was handed the run's selected-* sequence of its kind; and
\* the selection prompt was shown only after the stage prompt, the region
\* prompt, getApiByName and getResources had resolved in this order, with
\* the stage and region set, the listing stored and one orphan list computed
\* per local function.
C16_DispatchAfterSelection ==
  \A r \in Runs :
    /\ pc[r] \in DispatchAt \cup {"unsettled"} => ResolvedCallsOf(r, "cliPromptSelect") # {}
    /\ \A k \in DOMAIN DeployOps : \A i \in StageCalls(r, k) :
         /\ \E j \in ResolvedCallsOf(r, "cliPromptSelect") : j < i
         /\ calls[i].options.names = Selected(r, k)
         /\ Len(calls[i].options.names) > 0
    /\ \A i \in CallsOf(r, "cliPromptSelect") :
         /\ \E a \in ResolvedCallsOf(r, "cliPromptSelectStage"),
               b \in ResolvedCallsOf(r, "cliPromptSelectRegion"),
               c \in ResolvedCallsOf(r, "getApiByName"),
               d \in ResolvedCallsOf(r, "getResources") :
              a < b /\ b < c /\ c < d /\ d < i
         /\ evt[r].options.stage \in Stages /\ evt[r].options.region \in Regions
         /\ evt[r].data.deployedResources = GetResources(Limit)
         /\ Len(evt[r].data.notExistEndpoints) = Len(functions)

\* functionDeploy is in flight after the selection prompt resolved, in a
\* project with a deployed resource
C16_Witness ==
  \E r \in Runs :
    /\ pc[r] = "awaitFunctionDeploy"
    /\ \E i \in StageCalls(r, 1) : calls[i].status = "pending"
    /\ ResolvedCallsOf(r, "cliPromptSelect") # {}
    /\ Len(evt[r].options.selectedRemovalEndpoints) > 0
    /\ evt[r].data.deployedResources.items # <<>>

\* --- the orphan set and the choice list ----------------------------------

\* the position of the i-th header of run r's choice list
HeaderAt(r, i) ==
  CHOOSE h \in DOMAIN choices[r] :
    /\ IsHeader(choices[r][h])
    /\ Cardinality({g \in 1..h : IsHeader(choices[r][g])}) = i

\* the choices under the i-th header, up to the next header or the end
UnderHeader(r, i) ==
  LET headers == {h \in DOMAIN choices[r] : IsHeader(choices[r][h])}
      last == IF i < Cardinality(headers) THEN HeaderAt(r, i + 1) - 1 ELSE Len(choices[r])
  IN  SubSeq(choices[r], HeaderAt(r, i) + 1, last)

IsRemovalChoice(c) == ~IsHeader(c) /\ KindOf(c) = <<"endpoint", TRUE>>

\* C17: after orphan detection the orphan set has one entry per local
\* function; each key of entry i is "<name of function i>~<m>" for a method
\* key m of a deployed resource whose pathPart is that name; and in the
\* choice list the removal choices under the header of function i are, in
\* order, exactly the keys of entry i.
C17_OrphanSetAligned ==
  \A r \in Runs : Detected(r) =>
    /\ Len(evt[r].data.notExistEndpoints) = Len(functions)
    /\ \A i \in DOMAIN functions :
         \A n \in DOMAIN evt[r].data.notExistEndpoints[i] :
           \E j \in MatchesOf(r, functions[i]) :
             /\ Listing(r)[j].resourceMethods.defined
             /\ \E k \in DOMAIN Listing(r)[j].resourceMethods.keys :
                  evt[r].data.notExistEndpoints[i][n]
                    = functions[i].name \o <<"~">> \o Listing(r)[j].resourceMethods.keys[k]
    /\ pc[r] = "awaitSelect" =>
         \A i \in DOMAIN functions :
           /\ choices[r][HeaderAt(r, i)].spacer = functions[i].name
           /\ ValuesOf(SelectSeq(UnderHeader(r, i), IsRemovalChoice))
                = evt[r].data.notExistEndpoints[i]

\* the prompt is shown for two functions: the first matches no deployed
\* resource and has an empty entry, the second has two orphan keys
C17_Witness ==
  \E r \in Runs :
    /\ pc[r] = "awaitSelect"
    /\ Len(functions) = 2
    /\ MatchesOf(r, functions[1]) = {}
    /\ evt[r].data.notExistEndpoints[1] = <<>>
    /\ Len(evt[r].data.notExistEndpoints[2]) = 2

\* the number of entries emitted for function i
EmittedFor(r, i) ==
  2 + Len(functions[i].endpoints) + Len(evt[r].data.notExistEndpoints[i])
    + Len(functions[i].events)

\* the number of entries emitted for the functions before function i
RECURSIVE EmittedBefore(_, _)
EmittedBefore(r, i) == IF i <= 1 THEN 0 ELSE EmittedBefore(r, i - 1) + EmittedFor(r, i - 1)

MethodKeysOf(res) ==
  IF res.resourceMethods.defined THEN Range(res.resourceMethods.keys) ELSE {}

\* C19: when several deployed resources have the pathPart of a local
\* function, every key of the function's orphan list comes from a method of
\* the one listed first, and a method that only later ones have gives no
\* orphan key for the function and no removal choice in the list.
C19_FirstMatchWins ==
  \A r \in Runs : Detected(r) =>
    \A i \in DOMAIN functions :
      \A a, b \in MatchesOf(r, functions[i]) :
        (a < b /\ \A c \in MatchesOf(r, functions[i]) : a <= c)
        => /\ \A n \in DOMAIN evt[r].data.notExistEndpoints[i] :
                \E m \in MethodKeysOf(Listing(r)[a]) :
                  evt[r].data.notExistEndpoints[i][n] = functions[i].name \o <<"~">> \o m
           /\ \A m \in MethodKeysOf(Listing(r)[b]) \ MethodKeysOf(Listing(r)[a]) :
                LET key == functions[i].name \o <<"~">> \o m
                IN  /\ key \notin Range(evt[r].data.notExistEndpoints[i])
                    /\ \A k \in DOMAIN choices[r] :
                         IsRemovalChoice(choices[r][k]) => choices[r][k].value # key

\* the prompt is shown for the function users, which has no local DELETE
\* endpoint, with two deployed resources users: the first with GET only, the
\* second with DELETE
C19_Witness ==
  \E r \in Runs :
    /\ pc[r] = "awaitSelect"
    /\ \E i \in DOMAIN functions :
         /\ functions[i].name = users
         /\ Len(Listing(r)) = 2
         /\ Listing(r)[1].pathPart = users /\ Listing(r)[2].pathPart = users
         /\ MethodKeysOf(Listing(r)[1]) = {GET}
         /\ DELETE \in MethodKeysOf(Listing(r)[2])
         /\ functions[i].endpoints = <<>>
         /\ evt[r].data.notExistEndpoints[i] = <<users \o <<"~">> \o GET>>

====
